---- MODULE Spec2Model ----
(***************************************************************************)
(* Model of order_book/main.go: a single-instrument limit order book.      *)
(*                                                                         *)
(* Orders are heap objects reached through pointers to Order: the lookup   *)
(* map and the price levels both hold references, so a write through one   *)
(* reference is seen through all of them.  A B-tree of PriceLevel values   *)
(* is modelled as the sequence of its items in ascending Less order, which *)
(* is what Get / ReplaceOrInsert / Delete / Min of the tree observe.       *)
(* float64 prices and quantities are modelled as integers.  Inputs follow  *)
(* the data model: price positive, quantity non-negative, side buy/sell.   *)
(* MatchOrders is a loop; one step of the model is one loop iteration, and *)
(* no other call runs while the loop is active (single-threaded).          *)
(***************************************************************************)
EXTENDS Integers, Sequences, FiniteSets, TLC

\* ---------------------------------------------------------------- bounds
MaxObjs == 2
MaxPrice == 2
MaxQty == 2
MaxResting == 2
MaxDupAdds == 1
HeapSize == 4
ScenarioSlack == 1

Ids == {"a", "b"}
Sides == {"buy", "sell"}
SideArgs == Sides \cup {"hold"}
Prices == 1..MaxPrice
Quantities == 0..MaxQty
QuantityArgs == (0 - 1)..MaxQty
Refs == 1..HeapSize

VARIABLES
    heap,             \* Refs -> Order object (NoOrder when not allocated)
    Orders,           \* ob.Orders: OrderID -> reference
    BuyTree,          \* ob.BuyTree: PriceLevels, best (highest) first
    SellTree,         \* ob.SellTree: PriceLevels, best (lowest) first
    LastTradedPrice,  \* ob.LastTradedPrice, 0 = unset
    pc,               \* "idle", or "match" while the MatchOrders loop runs
    op,               \* name of the most recent call
    ret,              \* its result: "ok", "NotFound", "InvalidArgument"
    trade,            \* trade printed by the latest loop iteration of the call
    visited,          \* books at the head of the earlier iterations of the call
    saved,            \* the book before AddOrder(o) of an unmapped id, kept over
                      \* a RemoveOrder(o.id) that follows immediately
    dupAdds           \* number of AddOrder calls whose id was already mapped

vars == <<heap, Orders, BuyTree, SellTree, LastTradedPrice, pc, op, ret, trade, visited, saved, dupAdds>>

\* ------------------------------------------------------------ data types
NoOrder == [OrderID |-> "", Price |-> 0, Quantity |-> 0, Side |-> ""]
NoItem == [Price |-> 0, Side |-> "", Orders |-> <<>>]
NoTrade == [BuyID |-> "", SellID |-> "", Price |-> 0, Quantity |-> 0,
            BuyLeft |-> 0, SellLeft |-> 0]
NoneSaved == [phase |-> "none", id |-> "", book |-> <<>>]

Order(id, price, qty, side) ==
    [OrderID |-> id, Price |-> price, Quantity |-> qty, Side |-> side]

PriceLevel(price, side, orders) ==
    [Price |-> price, Side |-> side, Orders |-> orders]

\* The book as one value, so that operations compose as in the code.
Book ==
    [heap |-> heap, Orders |-> Orders, BuyTree |-> BuyTree,
     SellTree |-> SellTree, LastTradedPrice |-> LastTradedPrice]

NewOrderBook ==
    [heap |-> [r \in Refs |-> NoOrder], Orders |-> <<>>, BuyTree |-> <<>>,
     SellTree |-> <<>>, LastTradedPrice |-> 0]

\* ------------------------------------------------------------- the tree
LessAscendingOnly(p, o) == p.Price < o.Price

Less(p, o) ==
    IF p.Side = "buy" THEN p.Price > o.Price ELSE p.Price < o.Price

Same(p, o) == ~Less(p, o) /\ ~Less(o, p)

TreeIndex(tree, key) ==
    IF \E i \in 1..Len(tree) : Same(tree[i], key)
    THEN CHOOSE i \in 1..Len(tree) : Same(tree[i], key)
    ELSE 0

TreeGet(tree, key) ==
    IF TreeIndex(tree, key) = 0 THEN NoItem ELSE tree[TreeIndex(tree, key)]

TreeReplaceOrInsert(tree, item) ==
    IF TreeIndex(tree, item) # 0
    THEN [tree EXCEPT ![TreeIndex(tree, item)] = item]
    ELSE LET n == Cardinality({i \in 1..Len(tree) : Less(tree[i], item)})
         IN  SubSeq(tree, 1, n) \o <<item>> \o SubSeq(tree, n + 1, Len(tree))

TreeDelete(tree, item) ==
    IF TreeIndex(tree, item) = 0 THEN tree
    ELSE SubSeq(tree, 1, TreeIndex(tree, item) - 1)
         \o SubSeq(tree, TreeIndex(tree, item) + 1, Len(tree))

TreeMin(tree) == IF Len(tree) = 0 THEN NoItem ELSE tree[1]

\* ----------------------------------------------------- map and sequences
MapPut(m, k, v) == [x \in (DOMAIN m) \cup {k} |-> IF x = k THEN v ELSE m[x]]

MapDelete(m, k) == [x \in (DOMAIN m) \ {k} |-> m[x]]

RemoveAt(s, idx) == SubSeq(s, 1, idx - 1) \o SubSeq(s, idx + 1, Len(s))

minTakesLarger(a, b) == IF a < b THEN b ELSE a

min(a, b) == IF a < b THEN a ELSE b

\* The references held by the price levels of a tree, in traversal order.
RECURSIVE Flatten(_)
Flatten(tree) ==
    IF tree = <<>> THEN <<>> ELSE Head(tree).Orders \o Flatten(Tail(tree))

\* Number of entries resting in the price levels of both trees.
Resting(b) == Len(Flatten(b.BuyTree)) + Len(Flatten(b.SellTree))

RECURSIVE Distinct(_)
Distinct(s) ==
    IF s = <<>> THEN <<>>
    ELSE LET d == Distinct(SubSeq(s, 1, Len(s) - 1))
         IN  IF \E i \in 1..Len(d) : d[i] = s[Len(s)] THEN d ELSE Append(d, s[Len(s)])

RECURSIVE Ascending(_)
Ascending(S) ==
    IF S = {} THEN <<>>
    ELSE LET m == CHOOSE x \in S : \A y \in S : x <= y
         IN  <<m>> \o Ascending(S \ {m})

\* The order objects still referenced, by the levels or by the lookup map.
\* An address carries no meaning, so the live objects are kept at addresses
\* 1..n in the order in which a traversal of the book meets them; an object
\* no longer referenced is garbage and its slot is free again.
Addresses(b) ==
    LET inLevels == Distinct(Flatten(b.BuyTree) \o Flatten(b.SellTree))
        mapped == {b.Orders[id] : id \in DOMAIN b.Orders}
    IN  inLevels \o Ascending(mapped \ {inLevels[i] : i \in 1..Len(inLevels)})

Collect(b) ==
    LET a == Addresses(b)
        new(r) == CHOOSE i \in 1..Len(a) : a[i] = r
        move(tree) == [i \in 1..Len(tree) |->
                         [tree[i] EXCEPT !.Orders =
                             [j \in 1..Len(tree[i].Orders) |-> new(tree[i].Orders[j])]]]
    IN  [heap |-> [i \in Refs |-> IF i <= Len(a) THEN b.heap[a[i]] ELSE NoOrder],
         Orders |-> [id \in DOMAIN b.Orders |-> new(b.Orders[id])],
         BuyTree |-> move(b.BuyTree),
         SellTree |-> move(b.SellTree),
         LastTradedPrice |-> b.LastTradedPrice]

\* ------------------------------------------------------------ operations
AddOrderPrepends(b, r) ==
    LET order == b.heap[r]
        b1 == [b EXCEPT !.Orders = MapPut(b.Orders, order.OrderID, r)]
        priceLevel == PriceLevel(order.Price, order.Side, <<>>)
        tree == IF order.Side = "buy" THEN b1.BuyTree ELSE b1.SellTree
        item == TreeGet(tree, priceLevel)
        newTree == IF item # NoItem
                   THEN TreeReplaceOrInsert(tree, [item EXCEPT !.Orders = <<r>> \o @])
                   ELSE TreeReplaceOrInsert(tree, [priceLevel EXCEPT !.Orders = <<r>>])
    IN  IF order.Side = "buy" THEN [b1 EXCEPT !.BuyTree = newTree]
        ELSE [b1 EXCEPT !.SellTree = newTree]

AddOrderReplaces(b, r) ==
    LET order == b.heap[r]
        keep(x) == x # b.Orders[order.OrderID]
        cut(tree) == [i \in 1..Len(tree) |->
                        [tree[i] EXCEPT !.Orders = SelectSeq(tree[i].Orders, keep)]]
        full(level) == Len(level.Orders) > 0
        b0 == IF order.OrderID \in DOMAIN b.Orders
              THEN [b EXCEPT !.BuyTree = SelectSeq(cut(b.BuyTree), full),
                             !.SellTree = SelectSeq(cut(b.SellTree), full)]
              ELSE b
        b1 == [b0 EXCEPT !.Orders = MapPut(b0.Orders, order.OrderID, r)]
        priceLevel == PriceLevel(order.Price, order.Side, <<>>)
        tree == IF order.Side = "buy" THEN b1.BuyTree ELSE b1.SellTree
        item == TreeGet(tree, priceLevel)
        newTree == IF item # NoItem
                   THEN TreeReplaceOrInsert(tree, [item EXCEPT !.Orders = Append(@, r)])
                   ELSE TreeReplaceOrInsert(tree, [priceLevel EXCEPT !.Orders = <<r>>])
    IN  IF order.Side = "buy" THEN [b1 EXCEPT !.BuyTree = newTree]
        ELSE [b1 EXCEPT !.SellTree = newTree]

AddOrder(b, r) ==
    LET order == b.heap[r]
        b1 == [b EXCEPT !.Orders = MapPut(b.Orders, order.OrderID, r)]
        priceLevel == PriceLevel(order.Price, order.Side, <<>>)
        tree == IF order.Side = "buy" THEN b1.BuyTree ELSE b1.SellTree
        item == TreeGet(tree, priceLevel)
        newTree == IF item # NoItem
                   THEN TreeReplaceOrInsert(tree, [item EXCEPT !.Orders = Append(@, r)])
                   ELSE TreeReplaceOrInsert(tree, [priceLevel EXCEPT !.Orders = <<r>>])
    IN  IF order.Side = "buy" THEN [b1 EXCEPT !.BuyTree = newTree]
        ELSE [b1 EXCEPT !.SellTree = newTree]

removeOrderKeepsLevel(b, r) ==
    LET order == b.heap[r]
        priceLevel == PriceLevel(order.Price, order.Side, <<>>)
        tree == IF order.Side = "buy" THEN b.BuyTree ELSE b.SellTree
        item == TreeGet(tree, priceLevel)
        hits == {i \in 1..Len(item.Orders) : b.heap[item.Orders[i]].OrderID = order.OrderID}
        idx == CHOOSE i \in hits : \A k \in hits : i <= k
        newTree == IF item = NoItem \/ hits = {} THEN tree
                   ELSE TreeReplaceOrInsert(tree, [item EXCEPT !.Orders = RemoveAt(@, idx)])
    IN  IF order.Side = "buy" THEN [b EXCEPT !.BuyTree = newTree]
        ELSE [b EXCEPT !.SellTree = newTree]

removeOrderHead(b, r) ==
    LET order == b.heap[r]
        priceLevel == PriceLevel(order.Price, order.Side, <<>>)
        tree == IF order.Side = "buy" THEN b.BuyTree ELSE b.SellTree
        item == TreeGet(tree, priceLevel)
        existingLevel == [item EXCEPT !.Orders = RemoveAt(@, 1)]
        newTree == IF item = NoItem THEN tree
                   ELSE IF Len(existingLevel.Orders) = 0
                        THEN TreeDelete(tree, existingLevel)
                        ELSE TreeReplaceOrInsert(tree, existingLevel)
    IN  IF order.Side = "buy" THEN [b EXCEPT !.BuyTree = newTree]
        ELSE [b EXCEPT !.SellTree = newTree]

\* removeOrder(order): the first order of the level (order.Price, order.Side)
\* whose OrderID equals order.OrderID is cut out of the level.
removeOrder(b, r) ==
    LET order == b.heap[r]
        priceLevel == PriceLevel(order.Price, order.Side, <<>>)
        tree == IF order.Side = "buy" THEN b.BuyTree ELSE b.SellTree
        item == TreeGet(tree, priceLevel)
        hits == {i \in 1..Len(item.Orders) : b.heap[item.Orders[i]].OrderID = order.OrderID}
        idx == CHOOSE i \in hits : \A k \in hits : i <= k
        existingLevel == [item EXCEPT !.Orders = RemoveAt(@, idx)]
        newTree == IF item = NoItem \/ hits = {} THEN tree
                   ELSE IF Len(existingLevel.Orders) = 0
                        THEN TreeDelete(tree, existingLevel)
                        ELSE TreeReplaceOrInsert(tree, existingLevel)
    IN  IF order.Side = "buy" THEN [b EXCEPT !.BuyTree = newTree]
        ELSE [b EXCEPT !.SellTree = newTree]

\* The public calls, as functions from the book to the book and the result.
Result(b, r) == [book |-> b, ret |-> r]

RemoveOrder(b, orderID) ==
    IF orderID \notin DOMAIN b.Orders THEN Result(b, "NotFound")
    ELSE LET b1 == removeOrder(b, b.Orders[orderID])
         IN  Result([b1 EXCEPT !.Orders = MapDelete(@, orderID)], "ok")

ModifyOrderPrice(b, orderID, newPrice) ==
    IF orderID \notin DOMAIN b.Orders THEN Result(b, "NotFound")
    ELSE LET r == b.Orders[orderID]
             b1 == removeOrder(b, r)
             b2 == [b1 EXCEPT !.heap[r].Price = newPrice]
         IN  Result(AddOrder(b2, r), "ok")

ModifyOrderSideLooksUpFirst(b, orderID, newSide) ==
    IF orderID \notin DOMAIN b.Orders THEN Result(b, "NotFound")
    ELSE IF newSide # "buy" /\ newSide # "sell" THEN Result(b, "InvalidArgument")
    ELSE LET r == b.Orders[orderID]
             b1 == removeOrder(b, r)
             b2 == [b1 EXCEPT !.heap[r].Side = newSide]
         IN  Result(AddOrder(b2, r), "ok")

ModifyOrderSide(b, orderID, newSide) ==
    IF newSide # "buy" /\ newSide # "sell" THEN Result(b, "InvalidArgument")
    ELSE IF orderID \notin DOMAIN b.Orders THEN Result(b, "NotFound")
    ELSE LET r == b.Orders[orderID]
             b1 == removeOrder(b, r)
             b2 == [b1 EXCEPT !.heap[r].Side = newSide]
         IN  Result(AddOrder(b2, r), "ok")

ModifyOrderQuantityWritesFirst(b, orderID, newQuantity) ==
    IF orderID \notin DOMAIN b.Orders THEN Result(b, "NotFound")
    ELSE IF newQuantity < 0
         THEN Result([b EXCEPT !.heap[b.Orders[orderID]].Quantity = newQuantity],
                     "InvalidArgument")
    ELSE IF newQuantity = 0
         THEN LET b1 == removeOrder(b, b.Orders[orderID])
              IN  Result([b1 EXCEPT !.Orders = MapDelete(@, orderID)], "ok")
         ELSE Result([b EXCEPT !.heap[b.Orders[orderID]].Quantity = newQuantity], "ok")

ModifyOrderQuantityReinserts(b, orderID, newQuantity) ==
    IF newQuantity < 0 THEN Result(b, "InvalidArgument")
    ELSE IF orderID \notin DOMAIN b.Orders THEN Result(b, "NotFound")
    ELSE IF newQuantity = 0
         THEN LET b1 == removeOrder(b, b.Orders[orderID])
              IN  Result([b1 EXCEPT !.Orders = MapDelete(@, orderID)], "ok")
         ELSE LET r == b.Orders[orderID]
                  b1 == removeOrder(b, r)
                  b2 == [b1 EXCEPT !.heap[r].Quantity = newQuantity]
              IN  Result(AddOrder(b2, r), "ok")

ModifyOrderQuantity(b, orderID, newQuantity) ==
    IF newQuantity < 0 THEN Result(b, "InvalidArgument")
    ELSE IF orderID \notin DOMAIN b.Orders THEN Result(b, "NotFound")
    ELSE IF newQuantity = 0
         THEN LET b1 == removeOrder(b, b.Orders[orderID])
              IN  Result([b1 EXCEPT !.Orders = MapDelete(@, orderID)], "ok")
         ELSE Result([b EXCEPT !.heap[b.Orders[orderID]].Quantity = newQuantity], "ok")

\* ---------------------------------------------------------------- matching
CrossesStrictly(highestBuy, lowestSell) == highestBuy.Price > lowestSell.Price

\* The loop continues when both trees have a best level and they cross.
Crosses(highestBuy, lowestSell) == highestBuy.Price >= lowestSell.Price

MatchContinues(b) ==
    /\ TreeMin(b.BuyTree) # NoItem
    /\ TreeMin(b.SellTree) # NoItem
    /\ Crosses(TreeMin(b.BuyTree), TreeMin(b.SellTree))

\* One iteration of the loop that trades: the book after it and the trade
\* it printed (BuyLeft / SellLeft: the two quantities after both decrements).
MatchIteration(b) ==
    LET highestBuy == TreeMin(b.BuyTree)
        lowestSell == TreeMin(b.SellTree)
        buyOrder == highestBuy.Orders[1]
        sellOrder == lowestSell.Orders[1]
        tradePrice == b.heap[sellOrder].Price
        b1 == [b EXCEPT !.LastTradedPrice = tradePrice]
        tradeQuantity == min(b1.heap[buyOrder].Quantity, b1.heap[sellOrder].Quantity)
        b2 == [b1 EXCEPT !.heap[buyOrder].Quantity = @ - tradeQuantity]
        b3 == [b2 EXCEPT !.heap[sellOrder].Quantity = @ - tradeQuantity]
        b4 == IF b3.heap[buyOrder].Quantity = 0
              THEN [removeOrder(b3, buyOrder) EXCEPT
                        !.Orders = MapDelete(@, b3.heap[buyOrder].OrderID)]
              ELSE b3
        b5 == IF b4.heap[sellOrder].Quantity = 0
              THEN [removeOrder(b4, sellOrder) EXCEPT
                        !.Orders = MapDelete(@, b4.heap[sellOrder].OrderID)]
              ELSE b4
    IN  [book |-> b5,
         trade |-> [BuyID |-> b.heap[buyOrder].OrderID,
                    SellID |-> b.heap[sellOrder].OrderID,
                    Price |-> tradePrice, Quantity |-> tradeQuantity,
                    BuyLeft |-> b3.heap[buyOrder].Quantity,
                    SellLeft |-> b3.heap[sellOrder].Quantity]]

\* ------------------------------------------------------------ market data
Unavailable == [Price |-> 0, Ok |-> FALSE]

GetBestBid(b) ==
    IF Len(b.BuyTree) = 0 THEN Unavailable
    ELSE [Price |-> TreeMin(b.BuyTree).Price, Ok |-> TRUE]

GetBestAsk(b) ==
    IF Len(b.SellTree) = 0 THEN Unavailable
    ELSE [Price |-> TreeMin(b.SellTree).Price, Ok |-> TRUE]

\* (bestBid + bestAsk) / 2 need not be a whole number: GetMidPrice and
\* GetCurrentMarketPrice give twice the float64 they return, in field Twice.
NoPrice == [Twice |-> 0, Ok |-> FALSE]

GetMidPrice(b) ==
    IF GetBestBid(b).Ok /\ GetBestAsk(b).Ok
    THEN [Twice |-> GetBestBid(b).Price + GetBestAsk(b).Price, Ok |-> TRUE]
    ELSE NoPrice

GetCurrentMarketPriceMidFirst(b) ==
    IF GetMidPrice(b).Ok THEN GetMidPrice(b)
    ELSE IF b.LastTradedPrice # 0 THEN [Twice |-> 2 * b.LastTradedPrice, Ok |-> TRUE]
    ELSE NoPrice

GetCurrentMarketPriceForgetsWhenEmpty(b) ==
    IF b.LastTradedPrice # 0 /\ (Len(b.BuyTree) > 0 \/ Len(b.SellTree) > 0)
    THEN [Twice |-> 2 * b.LastTradedPrice, Ok |-> TRUE]
    ELSE IF GetMidPrice(b).Ok THEN GetMidPrice(b)
    ELSE NoPrice

GetCurrentMarketPrice(b) ==
    IF b.LastTradedPrice # 0 THEN [Twice |-> 2 * b.LastTradedPrice, Ok |-> TRUE]
    ELSE IF GetMidPrice(b).Ok THEN GetMidPrice(b)
    ELSE NoPrice

\* ---------------------------------------------------------------- actions
\* The book after a call: garbage is dropped so that its slot can be reused.
Commit(b) ==
    LET c == Collect(b)
    IN  /\ heap' = c.heap
        /\ Orders' = c.Orders
        /\ BuyTree' = c.BuyTree
        /\ SellTree' = c.SellTree
        /\ LastTradedPrice' = c.LastTradedPrice

Called(name, result) ==
    /\ op' = name
    /\ ret' = result
    /\ trade' = NoTrade
    /\ visited' = {}

Init ==
    /\ heap = NewOrderBook.heap
    /\ Orders = NewOrderBook.Orders
    /\ BuyTree = NewOrderBook.BuyTree
    /\ SellTree = NewOrderBook.SellTree
    /\ LastTradedPrice = NewOrderBook.LastTradedPrice
    /\ pc = "idle"
    /\ op = "NewOrderBook"
    /\ ret = "ok"
    /\ trade = NoTrade
    /\ visited = {}
    /\ saved = NoneSaved
    /\ dupAdds = 0

\* AddOrder(&Order{...}): the caller allocates a new order object.
DoAddOrder ==
    /\ pc = "idle"
    /\ Resting(Book) < MaxResting
    /\ \E r \in 1..MaxObjs, id \in Ids, price \in Prices, qty \in Quantities, side \in Sides :
          /\ heap[r] = NoOrder
          /\ Commit(AddOrder([Book EXCEPT !.heap[r] = Order(id, price, qty, side)], r))
          /\ Called("AddOrder", "ok")
          /\ id \in DOMAIN Orders => dupAdds < MaxDupAdds
          /\ dupAdds' = IF id \in DOMAIN Orders THEN dupAdds + 1 ELSE dupAdds
          /\ saved' = IF id \in DOMAIN Orders THEN NoneSaved
                       ELSE [phase |-> "added", id |-> id, book |-> Book]
    /\ UNCHANGED pc

DoRemoveOrder ==
    /\ pc = "idle"
    /\ \E id \in Ids :
          LET res == RemoveOrder(Book, id)
          IN  /\ Commit(res.book)
              /\ Called("RemoveOrder", res.ret)
          /\ saved' = IF saved.phase = "added" /\ saved.id = id
                       THEN [saved EXCEPT !.phase = "removed"] ELSE NoneSaved
    /\ UNCHANGED <<pc, dupAdds>>

DoModifyOrderPrice ==
    /\ pc = "idle"
    /\ \E id \in Ids, newPrice \in Prices :
          LET res == ModifyOrderPrice(Book, id, newPrice)
          IN  /\ Commit(res.book)
              /\ Called("ModifyOrderPrice", res.ret)
    /\ saved' = NoneSaved
    /\ UNCHANGED <<pc, dupAdds>>

DoModifyOrderSide ==
    /\ pc = "idle"
    /\ \E id \in Ids, newSide \in SideArgs :
          LET res == ModifyOrderSide(Book, id, newSide)
          IN  /\ Commit(res.book)
              /\ Called("ModifyOrderSide", res.ret)
    /\ saved' = NoneSaved
    /\ UNCHANGED <<pc, dupAdds>>

DoModifyOrderQuantity ==
    /\ pc = "idle"
    /\ \E id \in Ids, newQuantity \in QuantityArgs :
          LET res == ModifyOrderQuantity(Book, id, newQuantity)
          IN  /\ Commit(res.book)
              /\ Called("ModifyOrderQuantity", res.ret)
    /\ saved' = NoneSaved
    /\ UNCHANGED <<pc, dupAdds>>

\* MatchOrders(): entry, one trading iteration, and the break out of the loop.
MatchOrdersCall ==
    /\ pc = "idle"
    /\ pc' = "match"
    /\ Called("MatchOrders", "ok")
    /\ saved' = NoneSaved
    /\ UNCHANGED <<heap, Orders, BuyTree, SellTree, LastTradedPrice, dupAdds>>

\* Quantities stay within the modelled range (a negative quantity, once it
\* exists, makes the other side of a trade grow without limit).
InRange(b) ==
    \A r \in Refs : b.heap[r].Quantity \in (0 - MaxQty)..MaxQty

MatchOrdersTrade ==
    /\ pc = "match"
    /\ MatchContinues(Book)
    /\ LET res == MatchIteration(Book)
       IN  /\ InRange(res.book)
           /\ Commit(res.book)
           /\ trade' = res.trade
    /\ visited' = visited \cup {Book}
    /\ UNCHANGED <<pc, op, ret, saved, dupAdds>>

MatchOrdersReturn ==
    /\ pc = "match"
    /\ ~MatchContinues(Book)
    /\ pc' = "idle"
    /\ visited' = {}
    /\ UNCHANGED <<heap, Orders, BuyTree, SellTree, LastTradedPrice, op, ret, trade, saved, dupAdds>>

Next ==
    \/ DoAddOrder
    \/ DoRemoveOrder
    \/ DoModifyOrderPrice
    \/ DoModifyOrderSide
    \/ DoModifyOrderQuantity
    \/ MatchOrdersCall
    \/ MatchOrdersTrade
    \/ MatchOrdersReturn

Spec == Init /\ [][Next]_vars

\* ------------------------------------------------------- main's scenario
\* The four orders main adds before its first MatchOrders call.
ScenarioOrders ==
    << Order("B1", 100, 10, "buy"), Order("S1", 105, 5, "sell"),
       Order("B2", 102, 7, "buy"), Order("S2", 99, 8, "sell") >>

\* The book after AddOrder of a newly allocated order object o.
AddNew(b, o) ==
    LET r == CHOOSE x \in Refs : b.heap[x] = NoOrder /\ \A y \in 1..(x - 1) : b.heap[y] # NoOrder
    IN  AddOrder([b EXCEPT !.heap[r] = o], r)

\* The book main has built when it calls MatchOrders.
ScenarioBook ==
    Collect(AddNew(AddNew(AddNew(AddNew(NewOrderBook, ScenarioOrders[1]),
                                 ScenarioOrders[2]), ScenarioOrders[3]), ScenarioOrders[4]))

\* main's adds in main's order, each quantity taken near main's value.
ScenarioAddOrder ==
    /\ pc = "idle"
    /\ op \in {"NewOrderBook", "AddOrder"}
    /\ Resting(Book) < Len(ScenarioOrders)
    /\ LET o == ScenarioOrders[Resting(Book) + 1]
       IN  \E qty \in (o.Quantity - ScenarioSlack)..(o.Quantity + ScenarioSlack) :
               Commit(AddNew(Book, [o EXCEPT !.Quantity = qty]))
    /\ Called("AddOrder", "ok")
    /\ saved' = NoneSaved
    /\ UNCHANGED <<pc, dupAdds>>

ScenarioMatchOrdersCall ==
    /\ Resting(Book) = Len(ScenarioOrders)
    /\ op = "AddOrder"
    /\ MatchOrdersCall

ScenarioMatchOrdersTrade ==
    /\ pc = "match"
    /\ MatchContinues(Book)
    /\ Commit(MatchIteration(Book).book)
    /\ trade' = MatchIteration(Book).trade
    /\ visited' = visited \cup {Book}
    /\ UNCHANGED <<pc, op, ret, saved, dupAdds>>

ScenarioNext ==
    \/ ScenarioAddOrder
    \/ ScenarioMatchOrdersCall
    \/ ScenarioMatchOrdersTrade
    \/ MatchOrdersReturn

ScenarioSpec == Init /\ [][ScenarioNext]_vars

\* ================================================================= claims
BookVars == <<heap, Orders, BuyTree, SellTree, LastTradedPrice>>

Levels == {BuyTree[i] : i \in 1..Len(BuyTree)} \cup {SellTree[i] : i \in 1..Len(SellTree)}

Entries == Flatten(BuyTree) \o Flatten(SellTree)

Holds(level, r) == \E j \in 1..Len(level.Orders) : level.Orders[j] = r

\* C1: the lookup map and the price levels agree: every mapped order rests
\* exactly once, in the level of its own price and side, and every resting
\* order is the one the map holds under its id.
C1_MapAndLevelsAgree ==
    /\ \A id \in DOMAIN Orders :
          /\ Cardinality({k \in 1..Len(Entries) : Entries[k] = Orders[id]}) = 1
          /\ \A level \in Levels :
                Holds(level, Orders[id]) =>
                    /\ level.Price = heap[Orders[id]].Price
                    /\ level.Side = heap[Orders[id]].Side
    /\ \A k \in 1..Len(Entries) :
          /\ heap[Entries[k]].OrderID \in DOMAIN Orders
          /\ Orders[heap[Entries[k]].OrderID] = Entries[k]

\* C2: MatchOrders terminates.  The loop is deterministic in the book, so it
\* reaches its exit exactly when it never comes back to a book it was in at
\* the head of an earlier iteration of the same call.
C2_MatchingTerminates == pc = "match" => Book \notin visited

NotCrossed ==
    \/ Len(BuyTree) = 0
    \/ Len(SellTree) = 0
    \/ \A i \in 1..Len(BuyTree), j \in 1..Len(SellTree) :
          BuyTree[i].Price < SellTree[j].Price

\* C3: when MatchOrders has returned, one side is empty or every bid price
\* is strictly below every ask price.
C3_NotCrossedOnReturn == (pc = "idle" /\ op = "MatchOrders") => NotCrossed

C3_Witness ==
    pc = "idle" /\ op = "MatchOrders" /\ trade # NoTrade /\ Len(Entries) > 0

\* C4: no order with quantity 0 rests in a level or is held by the map.
C4_NoZeroQuantity ==
    /\ \A k \in 1..Len(Entries) : heap[Entries[k]].Quantity # 0
    /\ \A id \in DOMAIN Orders : heap[Orders[id]].Quantity # 0

\* C5: every price level stored in a tree has at least one order.
C5_NoEmptyLevel == \A level \in Levels : Len(level.Orders) > 0

\* A successful RemoveOrder took the last order and no level is left.
C5_Witness ==
    op = "RemoveOrder" /\ ret = "ok" /\ Len(BuyTree) = 0 /\ Len(SellTree) = 0

\* C6: a call that returns an error leaves the trees, the levels, the orders,
\* the lookup map and the last traded price as they were.
C6_ErrorLeavesBookUnchanged == [][ret' # "ok" => UNCHANGED BookVars]_vars

C6_Witness == ret # "ok" /\ Len(Entries) > 0

\* The best levels and their oldest orders, read off the levels themselves.
BestBid == CHOOSE l \in Levels : l.Side = "buy" /\ \A m \in Levels : m.Side = "buy" => m.Price <= l.Price

BestAsk == CHOOSE l \in Levels : l.Side = "sell" /\ \A m \in Levels : m.Side = "sell" => l.Price <= m.Price

\* C7: a trade pairs the oldest order of the highest bid level with the
\* oldest order of the lowest ask level, at the sell order's price, for the
\* smaller of the two quantities, and both quantities go down by that much.
C7_TradePairsBestOldest ==
    [][(pc = "match" /\ pc' = "match") =>
        LET buy == heap[BestBid.Orders[1]]
            sell == heap[BestAsk.Orders[1]]
        IN  /\ trade'.BuyID = buy.OrderID
            /\ trade'.SellID = sell.OrderID
            /\ trade'.Price = sell.Price
            /\ trade'.Quantity = min(buy.Quantity, sell.Quantity)
            /\ trade'.BuyLeft = buy.Quantity - trade'.Quantity
            /\ trade'.SellLeft = sell.Quantity - trade'.Quantity]_vars

\* C8: bid levels are in strictly decreasing price order, ask levels in
\* strictly increasing order, and GetBestBid / GetBestAsk give the highest
\* bid price / the lowest ask price.
C8_LevelsStrictlyOrdered ==
    /\ \A i, j \in 1..Len(BuyTree) : i < j => BuyTree[i].Price > BuyTree[j].Price
    /\ \A i, j \in 1..Len(SellTree) : i < j => SellTree[i].Price < SellTree[j].Price
    /\ Len(BuyTree) > 0 =>
          /\ GetBestBid(Book).Ok
          /\ \A i \in 1..Len(BuyTree) : BuyTree[i].Price <= GetBestBid(Book).Price
    /\ Len(SellTree) > 0 =>
          /\ GetBestAsk(Book).Ok
          /\ \A i \in 1..Len(SellTree) : GetBestAsk(Book).Price <= SellTree[i].Price

C8_Witness == Len(BuyTree) = 2 /\ GetBestBid(Book).Ok /\ op = "AddOrder"

\* No order carrying the id is in the book b: not under the lookup map and
\* not in any price level.
NotInBook(b, id) ==
    /\ id \notin DOMAIN b.Orders
    /\ \A k \in 1..Len(Flatten(b.BuyTree) \o Flatten(b.SellTree)) :
          b.heap[(Flatten(b.BuyTree) \o Flatten(b.SellTree))[k]].OrderID # id

Without(b, id) ==
    LET r == b.Orders[id]
        keep(x) == x # r
        cut(tree) == [i \in 1..Len(tree) |->
                        [tree[i] EXCEPT !.Orders = SelectSeq(tree[i].Orders, keep)]]
        full(level) == Len(level.Orders) > 0
    IN  [b EXCEPT !.BuyTree = SelectSeq(cut(b.BuyTree), full),
                  !.SellTree = SelectSeq(cut(b.SellTree), full),
                  !.Orders = MapDelete(b.Orders, id)]

\* C10: a successful RemoveOrder(id) takes exactly the mapped order out of
\* its level, keeps the other orders in order, and a second RemoveOrder(id)
\* returns NotFound.
C10_RemoveOrderRemovesThatOrder ==
    [][(op' = "RemoveOrder" /\ ret' = "ok") =>
        \E id \in DOMAIN Orders :
            /\ Book' = Collect(Without(Book, id))
            /\ RemoveOrder(Book', id).ret = "NotFound"]_vars

\* C11: GetCurrentMarketPrice gives the last traded price when it is set,
\* else the mid price (bestBid + bestAsk) / 2 when both sides have a level,
\* else nothing; and the last traded price is the price of the latest trade.
C11_MarketPriceChain ==
    /\ LastTradedPrice # 0 =>
          GetCurrentMarketPrice(Book) = [Twice |-> 2 * LastTradedPrice, Ok |-> TRUE]
    /\ (LastTradedPrice = 0 /\ Len(BuyTree) > 0 /\ Len(SellTree) > 0) =>
          GetCurrentMarketPrice(Book) =
              [Twice |-> BestBid.Price + BestAsk.Price, Ok |-> TRUE]
    /\ (LastTradedPrice = 0 /\ (Len(BuyTree) = 0 \/ Len(SellTree) = 0)) =>
          ~GetCurrentMarketPrice(Book).Ok
    /\ trade # NoTrade => (LastTradedPrice # 0 /\ LastTradedPrice = trade.Price)

\* A trade has set the last traded price and both sides have a level again,
\* with a mid price that differs from the last traded price.
C11_Witness ==
    /\ pc = "idle" /\ LastTradedPrice # 0
    /\ Len(BuyTree) > 0 /\ Len(SellTree) > 0
    /\ BestBid.Price + BestAsk.Price # 2 * LastTradedPrice

Empty == Len(BuyTree) = 0 /\ Len(SellTree) = 0

\* C12: on an empty book GetBestBid, GetBestAsk, GetMidPrice and
\* GetCurrentMarketPrice all give nothing.
C12_EmptyBookAllUnavailable ==
    Empty => /\ ~GetBestBid(Book).Ok
             /\ ~GetBestAsk(Book).Ok
             /\ ~GetMidPrice(Book).Ok
             /\ ~GetCurrentMarketPrice(Book).Ok

\* C12 as amended: on an empty book GetBestBid, GetBestAsk and GetMidPrice
\* give nothing; GetCurrentMarketPrice gives nothing while no trade has set
\* the last traded price, and the last traded price once one has.
C12_EmptyBookAmended ==
    Empty => /\ ~GetBestBid(Book).Ok
             /\ ~GetBestAsk(Book).Ok
             /\ ~GetMidPrice(Book).Ok
             /\ LastTradedPrice = 0 => ~GetCurrentMarketPrice(Book).Ok
             /\ LastTradedPrice # 0 =>
                   GetCurrentMarketPrice(Book) =
                       [Twice |-> 2 * LastTradedPrice, Ok |-> TRUE]

\* The book was emptied by a MatchOrders call that traded.
C12_Witness == Empty /\ pc = "idle" /\ op = "MatchOrders" /\ trade # NoTrade

\* The book holds exactly order B1 with quantity 9 at 100 on the buy side
\* and order S1 with quantity 5 at 105 on the sell side.
ScenarioResult(b) ==
    /\ Len(b.BuyTree) = 1 /\ Len(b.SellTree) = 1
    /\ b.BuyTree[1].Price = 100 /\ Len(b.BuyTree[1].Orders) = 1
    /\ b.SellTree[1].Price = 105 /\ Len(b.SellTree[1].Orders) = 1
    /\ b.heap[b.BuyTree[1].Orders[1]] = Order("B1", 100, 9, "buy")
    /\ b.heap[b.SellTree[1].Orders[1]] = Order("S1", 105, 5, "sell")
    /\ DOMAIN b.Orders = {"B1", "S1"}
    /\ b.Orders["B1"] = b.BuyTree[1].Orders[1]
    /\ b.Orders["S1"] = b.SellTree[1].Orders[1]

\* C13: MatchOrders called on main's book of B1, S1, B2, S2 trades B2 with
\* S2 at 99 for 7, then B1 with S2 at 99 for 1, and nothing else; it returns
\* with B1 (9 at 100) and S1 (5 at 105) resting, the last traded price 99
\* and the current market price 99.
C13_ReferenceScenario ==
    [][/\ (ScenarioBook \in visited' /\ Cardinality(visited') = 1) =>
              trade' = [BuyID |-> "B2", SellID |-> "S2", Price |-> 99, Quantity |-> 7,
                        BuyLeft |-> 0, SellLeft |-> 1]
       /\ (ScenarioBook \in visited' /\ Cardinality(visited') = 2) =>
              trade' = [BuyID |-> "B1", SellID |-> "S2", Price |-> 99, Quantity |-> 1,
                        BuyLeft |-> 9, SellLeft |-> 0]
       /\ ScenarioBook \in visited' => Cardinality(visited') <= 2
       /\ (pc = "match" /\ pc' = "idle" /\ (Book = ScenarioBook \/ ScenarioBook \in visited)) =>
              /\ Cardinality(visited) = 2
              /\ ScenarioResult(Book')
              /\ LastTradedPrice' = 99
              /\ GetCurrentMarketPrice(Book') = [Twice |-> 2 * 99, Ok |-> TRUE]]_vars

\* MatchOrders, called on main's book, has traded twice and is about to return.
C13_Witness ==
    /\ pc = "match" /\ ScenarioBook \in visited /\ Cardinality(visited) = 2
    /\ ~MatchContinues(Book)

\* The price levels of a tree with the orders themselves in place of the
\* references to them.
TreeView(b, tree) ==
    [i \in 1..Len(tree) |->
        [tree[i] EXCEPT !.Orders = [j \in 1..Len(tree[i].Orders) |-> b.heap[tree[i].Orders[j]]]]]

\* The orders of the level with this price in a tree view, <<>> when absent.
OrdersAt(view, price) ==
    IF \E i \in 1..Len(view) : view[i].Price = price
    THEN view[CHOOSE i \in 1..Len(view) : view[i].Price = price].Orders
    ELSE <<>>

\* The levels of a tree view other than the one with this price.
OtherLevels(view, price) ==
    LET other(level) == level.Price # price
    IN  SelectSeq(view, other)

\* The orders the lookup map holds under the ids other than id.
OtherMapped(b, id) ==
    [x \in DOMAIN b.Orders \ {id} |-> b.heap[b.Orders[x]]]

\* C14: AddOrder of an order whose id is not mapped appends it to the level
\* of its price and side (a new level when there was none), maps its id to
\* it, and changes no other order, no other level and not the last traded
\* price; no trade happens even when the book is crossed afterwards.
C14_AddOrderOnlyAppends ==
    [][(op' = "AddOrder" /\ saved'.phase = "added") =>
        LET id == saved'.id
            o == heap'[Orders'[id]]
            old == TreeView(Book, IF o.Side = "buy" THEN BuyTree ELSE SellTree)
            new == TreeView(Book', IF o.Side = "buy" THEN BuyTree' ELSE SellTree')
            level == CHOOSE l \in Levels' : l.Price = o.Price /\ l.Side = o.Side
        IN  /\ ret' = "ok"
            /\ id \notin DOMAIN Orders
            /\ DOMAIN Orders' = DOMAIN Orders \cup {id}
            /\ o.OrderID = id
            /\ \E l \in Levels' : l.Price = o.Price /\ l.Side = o.Side
            /\ level.Orders[Len(level.Orders)] = Orders'[id]
            /\ OrdersAt(new, o.Price) = Append(OrdersAt(old, o.Price), o)
            /\ OtherLevels(new, o.Price) = OtherLevels(old, o.Price)
            /\ o.Side = "buy" => TreeView(Book', SellTree') = TreeView(Book, SellTree)
            /\ o.Side = "sell" => TreeView(Book', BuyTree') = TreeView(Book, BuyTree)
            /\ OtherMapped(Book', id) = OtherMapped(Book, id)
            /\ LastTradedPrice' = LastTradedPrice
            /\ trade' = NoTrade /\ pc' = "idle"]_vars

\* AddOrder of an unmapped id has just crossed a book that had one side
\* empty.
C14_Witness ==
    /\ op = "AddOrder" /\ saved.phase = "added" /\ ~NotCrossed
    /\ Len(saved.book.BuyTree) = 0 \/ Len(saved.book.SellTree) = 0

\* C15: a successful ModifyOrderPrice or ModifyOrderSide takes the order out
\* of its level and leaves it, once, last in the level of its new price and
\* side; the mapped ids, the order's quantity and the other orders with
\* their relative order stay as they were.
C15_ModifyMovesToBack ==
    [][(op' \in {"ModifyOrderPrice", "ModifyOrderSide"} /\ ret' = "ok") =>
        \E id \in DOMAIN Orders :
            LET before == heap[Orders[id]]
                r == Orders'[id]
                o == heap'[r]
                level == CHOOSE l \in Levels' : l.Price = o.Price /\ l.Side = o.Side
            IN  /\ DOMAIN Orders' = DOMAIN Orders
                /\ o.OrderID = id /\ o.Quantity = before.Quantity
                /\ op' = "ModifyOrderPrice" => o.Side = before.Side
                /\ op' = "ModifyOrderSide" => o.Price = before.Price
                /\ Cardinality({k \in 1..Len(Entries') : Entries'[k] = r}) = 1
                /\ \E l \in Levels' : l.Price = o.Price /\ l.Side = o.Side
                /\ level.Orders[Len(level.Orders)] = r
                /\ TreeView(Book', Without(Book', id).BuyTree) =
                      TreeView(Book, Without(Book, id).BuyTree)
                /\ TreeView(Book', Without(Book', id).SellTree) =
                      TreeView(Book, Without(Book, id).SellTree)
                /\ OtherMapped(Book', id) = OtherMapped(Book, id)
                /\ LastTradedPrice' = LastTradedPrice]_vars

\* C16: ModifyOrderQuantity(id, q) with id mapped and q > 0 succeeds and
\* changes the quantity of that order and nothing else (levels, positions,
\* map, other orders, last traded price); with q = 0 it succeeds and leaves
\* the book exactly as RemoveOrder(id) leaves it.
C16_ModifyQuantityInPlace ==
    \A id \in DOMAIN Orders :
        /\ \A q \in 1..MaxQty :
              LET res == ModifyOrderQuantity(Book, id, q)
              IN  /\ res.ret = "ok"
                  /\ res.book.BuyTree = BuyTree
                  /\ res.book.SellTree = SellTree
                  /\ res.book.Orders = Orders
                  /\ res.book.LastTradedPrice = LastTradedPrice
                  /\ \A r \in Refs :
                        res.book.heap[r] = IF r = Orders[id]
                                           THEN [heap[r] EXCEPT !.Quantity = q]
                                           ELSE heap[r]
        /\ ModifyOrderQuantity(Book, id, 0).ret = "ok"
        /\ RemoveOrder(Book, id).ret = "ok"
        /\ ModifyOrderQuantity(Book, id, 0).book = RemoveOrder(Book, id).book

\* ModifyOrderQuantity has succeeded on a book with two orders in one level.
C16_Witness ==
    /\ op = "ModifyOrderQuantity" /\ ret = "ok"
    /\ DOMAIN Orders # {}
    /\ \E level \in Levels : Len(level.Orders) = 2

\* C17: ModifyOrderSide fails with InvalidArgument for a side other than buy
\* or sell whatever the id, and with NotFound for a valid side and an
\* unmapped id; ModifyOrderQuantity fails with InvalidArgument for a negative
\* quantity whatever the id, and with NotFound for a quantity >= 0 and an
\* unmapped id; RemoveOrder and ModifyOrderPrice fail with NotFound exactly
\* for an unmapped id; every other call succeeds.
C17_ErrorPriority ==
    \A id \in Ids :
        /\ \A side \in SideArgs :
              ModifyOrderSide(Book, id, side).ret =
                  IF side \notin Sides THEN "InvalidArgument"
                  ELSE IF id \notin DOMAIN Orders THEN "NotFound" ELSE "ok"
        /\ \A q \in QuantityArgs :
              ModifyOrderQuantity(Book, id, q).ret =
                  IF q < 0 THEN "InvalidArgument"
                  ELSE IF id \notin DOMAIN Orders THEN "NotFound" ELSE "ok"
        /\ RemoveOrder(Book, id).ret =
              IF id \notin DOMAIN Orders THEN "NotFound" ELSE "ok"
        /\ \A price \in Prices :
              ModifyOrderPrice(Book, id, price).ret =
                  IF id \notin DOMAIN Orders THEN "NotFound" ELSE "ok"

\* ModifyOrderSide has failed with InvalidArgument while no id is mapped, so
\* the id it was given is absent as well.
C17_Witness ==
    op = "ModifyOrderSide" /\ ret = "InvalidArgument" /\ DOMAIN Orders = {}

\* C18: AddOrder of an order whose id is already mapped returns no error,
\* maps the id to the new order and appends the new order to the level of
\* its price and side; the order added before stays where it was, so the
\* levels hold an order with that id that the lookup map does not refer to.
C18_DuplicateIdOrphans ==
    [][(op' = "AddOrder" /\ saved'.phase = "none") =>
        \E id \in DOMAIN Orders :
            LET r == Orders'[id]
                o == heap'[r]
                old == TreeView(Book, IF o.Side = "buy" THEN BuyTree ELSE SellTree)
                new == TreeView(Book', IF o.Side = "buy" THEN BuyTree' ELSE SellTree')
                level == CHOOSE l \in Levels' : l.Price = o.Price /\ l.Side = o.Side
            IN  /\ ret' = "ok"
                /\ DOMAIN Orders' = DOMAIN Orders
                /\ o.OrderID = id
                /\ \E l \in Levels' : l.Price = o.Price /\ l.Side = o.Side
                /\ level.Orders[Len(level.Orders)] = r
                /\ Cardinality({k \in 1..Len(Entries') : Entries'[k] = r}) = 1
                /\ OrdersAt(new, o.Price) = Append(OrdersAt(old, o.Price), o)
                /\ OtherLevels(new, o.Price) = OtherLevels(old, o.Price)
                /\ o.Side = "buy" => TreeView(Book', SellTree') = TreeView(Book, SellTree)
                /\ o.Side = "sell" => TreeView(Book', BuyTree') = TreeView(Book, BuyTree)
                /\ OtherMapped(Book', id) = OtherMapped(Book, id)
                /\ \E k \in 1..Len(Entries') :
                      /\ heap'[Entries'[k]] = heap[Orders[id]]
                      /\ \A x \in DOMAIN Orders' : Orders'[x] # Entries'[k]]_vars

\* AddOrder has just been called with an id that was mapped already.
C18_Witness == op = "AddOrder" /\ saved.phase = "none" /\ dupAdds = 1

\* Total quantity of the entries resting in a tree of book b.
RECURSIVE SumQuantity(_, _)
SumQuantity(b, refs) ==
    IF refs = <<>> THEN 0
    ELSE b.heap[Head(refs)].Quantity + SumQuantity(b, Tail(refs))

BidTotal(b) == SumQuantity(b, Flatten(b.BuyTree))

AskTotal(b) == SumQuantity(b, Flatten(b.SellTree))

\* The book the running MatchOrders call started from: the one book at the
\* head of an iteration that no iteration of the call produced.
CallStart ==
    CHOOSE b \in visited : \A c \in visited : Collect(MatchIteration(c).book) # b

\* Sum of the trade quantities of the iterations that started from books.
RECURSIVE SumTraded(_)
SumTraded(books) ==
    IF books = {} THEN 0
    ELSE LET b == CHOOSE x \in books : TRUE
         IN  MatchIteration(b).trade.Quantity + SumTraded(books \ {b})

\* C19: when a MatchOrders call returns, the total resting quantity of the
\* bid side and that of the ask side have each gone down by the sum of the
\* quantities of the trades of the call, so their difference is as before;
\* a call without a trade leaves the book and the last traded price as
\* they were.
C19_QuantityConserved ==
    [][/\ (pc = "idle" /\ pc' = "match") => UNCHANGED BookVars
       /\ (pc = "match" /\ pc' = "idle") =>
             /\ UNCHANGED BookVars
             /\ visited # {} =>
                   /\ BidTotal(Book) = BidTotal(CallStart) - SumTraded(visited)
                   /\ AskTotal(Book) = AskTotal(CallStart) - SumTraded(visited)
                   /\ BidTotal(Book) - AskTotal(Book) =
                         BidTotal(CallStart) - AskTotal(CallStart)]_vars

\* C20: every trade is priced at the price of the sell order it fills and
\* at no more than the price of the buy order it fills.
C20_LimitPricesRespected ==
    [][(pc = "match" /\ pc' = "match") =>
        LET buyOrder == heap[TreeMin(BuyTree).Orders[1]]
            sellOrder == heap[TreeMin(SellTree).Orders[1]]
        IN  /\ trade'.Price = sellOrder.Price
            /\ trade'.Price <= buyOrder.Price
            /\ LastTradedPrice' = trade'.Price]_vars

====
